---------------------------- MODULE Spec2Model ----------------------------
(***************************************************************************)
(* A model of the LCSH recommendation service:                             *)
(*   - LCSHScraper (src/scraper.py): the rate-limited lookup client,       *)
(*   - SimilarityEngine (src/similarity.py): the TF-IDF ranking engine,    *)
(*   - recommend (src/main.py): the handler composing the two.             *)
(* Time is counted in clock ticks, TicksPerSecond of them to the second.   *)
(***************************************************************************)
EXTENDS Integers, Sequences, FiniteSets, TLC

(***************************************************************************)
(* Bounds of the model and constants of the program.                       *)
(***************************************************************************)
\* Callers that may be inside search_terms on the one scraper instance.
NumCallers == 2
\* Resolution of the clock: ticks per second.
TicksPerSecond == 2
\* Ticks the clock may advance beyond its start.
MaxTicks == 5
\* search_terms calls one caller may start.
MaxCalls == 2
\* Length of a query string, in characters.
MaxQueryLen == 1

\* self.min_request_interval = 1 (seconds)
MinRequestInterval == 1
\* def search_terms(self, query, max_pages=3)
DefaultMaxPages == 3
\* self.last_request_time = 0
InitialLastRequestTime == 0

Interval == MinRequestInterval * TicksPerSecond
\* time.time() is far beyond the interval when the process starts.
ClockStart == InitialLastRequestTime + Interval
MaxClock == ClockStart + MaxTicks

Callers == 1..NumCallers

(***************************************************************************)
(* Strings are sequences of characters.                                    *)
(***************************************************************************)
RECURSIVE SeqsUpTo(_, _)
SeqsUpTo(S, n) ==
    IF n = 0 THEN {<<>>}
    ELSE LET shorter == SeqsUpTo(S, n - 1)
         IN  shorter \cup {Append(s, x) : s \in {r \in shorter : Len(r) = n - 1}, x \in S}

RECURSIVE Flatten(_)
Flatten(ss) == IF ss = <<>> THEN <<>> ELSE Head(ss) \o Flatten(Tail(ss))

\* The last two values of a history, oldest first.
Push2(h, x) == IF Len(h) < 2 THEN Append(h, x) ELSE <<h[2], x>>

(***************************************************************************)
(* urllib.parse.quote(query): unreserved characters pass, "&", "?" and     *)
(* non-ASCII characters become the %XX of their UTF-8 bytes, and a lone    *)
(* surrogate (a str json.loads yields for "\ud800") has no UTF-8 encoding: *)
(* quote raises UnicodeEncodeError.                                        *)
(***************************************************************************)
Surrogate == "\\ud800"
QueryChars == {"a", "&", "?", "e-acute", Surrogate}
Queries == SeqsUpTo(QueryChars, MaxQueryLen)

QuoteChar(c) ==
    CASE c = "&"       -> <<"%26">>
      [] c = "?"       -> <<"%3F">>
      [] c = " "       -> <<"%20">>
      [] c = "e-acute" -> <<"%C3", "%A9">>
      [] OTHER         -> <<c>>

QuoteRaises(q) == \E i \in 1..Len(q) : q[i] = Surrogate

Quote(q) == Flatten([i \in 1..Len(q) |-> QuoteChar(q[i])])

\* self.base_url.format(keyword=encoded_query)
SearchUrl(q) ==
    <<"https://id.loc.gov/search/?q=">> \o Quote(q)
        \o <<"&q=cs:http://id.loc.gov/authorities/subjects">>

(***************************************************************************)
(* The response body as BeautifulSoup sees it: an optional results table   *)
(* (table.id-std) holding result groups (tbody.tbody-group); a group has   *)
(* an optional first row (tr) of data cells (td); a cell has a text and    *)
(* possibly a link (a) around that text, with an href.                     *)
(***************************************************************************)
\* Result groups of one page.
MaxEntries == 2
\* Data cells of one row.
MaxCells == 3

Blank == <<" ">>
TermText == <<" ", "T">>
IdText == <<"I", " ">>
RelHref == <<"/", "p">>
AbsHref == <<"h", "p">>

TextCell(x) == [hasLink |-> FALSE, text |-> x, href |-> <<>>]
LinkCell(x, h) == [hasLink |-> TRUE, text |-> x, href |-> h]
Cells ==
    {TextCell(Blank), TextCell(IdText),
     LinkCell(Blank, RelHref), LinkCell(TermText, RelHref), LinkCell(TermText, AbsHref)}

NoRow == [hasRow |-> FALSE, cells |-> <<>>]
Row(cs) == [hasRow |-> TRUE, cells |-> cs]
Entries == {NoRow} \cup {Row(cs) : cs \in SeqsUpTo(Cells, MaxCells)}

NoTable == [hasTable |-> FALSE, entries |-> <<>>]
Page(es) == [hasTable |-> TRUE, entries |-> es]
\* The pages of at most n result groups.
Pages(n) == {NoTable} \cup {Page(es) : es \in SeqsUpTo(Entries, n)}

\* str.strip()
RECURSIVE StripLeft(_)
StripLeft(x) ==
    IF x # <<>> /\ Head(x) = " " THEN StripLeft(Tail(x)) ELSE x
RECURSIVE StripRight(_)
StripRight(x) ==
    IF x # <<>> /\ x[Len(x)] = " " THEN StripRight(SubSeq(x, 1, Len(x) - 1)) ELSE x
Strip(x) == StripRight(StripLeft(x))

\* f"https://id.loc.gov{href}" if href.startswith('/') else href
FullUrl(href) ==
    IF href # <<>> /\ Head(href) = "/" THEN <<"https://id.loc.gov">> \o href ELSE href

\* list indexing: row.find_all('td')[1] raises IndexError on a row of fewer than
\* two cells; [-1] raises on a row of none.
SecondCellRaises(cells) == Len(cells) < 2

\* The body of the loop over the result groups, for one group: the records it
\* appends, or the exception it raises.
ParseEntry(e) ==
    IF ~e.hasRow THEN [raised |-> FALSE, recs |-> <<>>]
    ELSE IF SecondCellRaises(e.cells) THEN [raised |-> TRUE, recs |-> <<>>]
    ELSE LET link_cell == e.cells[2]
             id_cell   == e.cells[Len(e.cells)]
             term      == Strip(link_cell.text)
             lcsh_id   == Strip(id_cell.text)
         IN  IF link_cell.hasLink /\ term # <<>> /\ lcsh_id # <<>>
             THEN [raised |-> FALSE,
                   recs   |-> <<[term |-> term, id |-> lcsh_id,
                                 url |-> FullUrl(link_cell.href)]>>]
             ELSE [raised |-> FALSE, recs |-> <<>>]

\* The loop: an exception leaves it, keeping what was appended so far
\* (results is filled in place and the handlers of search_terms only log).
RECURSIVE ParseEntries(_, _)
ParseEntries(es, acc) ==
    IF es = <<>> THEN [raised |-> FALSE, results |-> acc]
    ELSE LET r == ParseEntry(Head(es))
         IN  IF r.raised THEN [raised |-> TRUE, results |-> acc]
             ELSE ParseEntries(Tail(es), acc \o r.recs)

ParsePage(page) ==
    IF page.hasTable THEN ParseEntries(page.entries, <<>>)
    ELSE [raised |-> FALSE, results |-> <<>>]

(***************************************************************************)
(* Exceptions of the request and of the parsing, and the two handlers of   *)
(* search_terms: except httpx.HTTPError, except Exception.                 *)
(***************************************************************************)
RequestErrors == {"ConnectError", "ReadTimeout", "HTTPStatusError"}
NetOutcomes == {"ok"} \cup RequestErrors

IsHTTPError(exc) == exc \in RequestErrors
IsException(exc) == exc \in RequestErrors \cup {"IndexError"}

CaughtOnlyStatus(exc) == exc = "HTTPStatusError"
Caught(exc) == IsHTTPError(exc) \/ IsException(exc)

(***************************************************************************)
(* State of the scraper instance and of the callers inside search_terms.   *)
(***************************************************************************)
VARIABLES
    now,                \* time.time(), in ticks
    last_request_time,  \* self.last_request_time
    pc,                 \* where each caller is inside search_terms
    calls,              \* search_terms calls each caller has started
    query,              \* the query argument of each caller's call
    search_url,         \* the local search_url
    current_time,       \* the local current_time of _wait_for_rate_limit
    wake,               \* the instant time.sleep returns at the earliest
    net,                \* how the request of the call went
    page,               \* the response body received
    results,            \* the local results, the value returned
    outcome,            \* how the call ended: "returned" or "raised"
    logged,             \* the exception the handlers logged, if any
    starts,             \* instants of the last two call starts
    stamps,             \* the last two values written to last_request_time
    gets,               \* instants of the last two outbound GETs
    max_pages,          \* the max_pages argument of each caller's call
    sent                \* outbound GETs each caller's call has issued

scraperVars ==
    <<now, last_request_time, pc, calls, query, search_url, current_time, wake,
      net, page, results, outcome, logged, starts, stamps, gets, max_pages, sent>>

callVars == <<query, search_url, net, page, results, outcome, logged, max_pages>>

InitScraper ==
    /\ now = ClockStart
    /\ last_request_time = InitialLastRequestTime
    /\ pc = [t \in Callers |-> "idle"]
    /\ calls = [t \in Callers |-> 0]
    /\ query = [t \in Callers |-> <<>>]
    /\ search_url = [t \in Callers |-> <<>>]
    /\ current_time = [t \in Callers |-> 0]
    /\ wake = [t \in Callers |-> 0]
    /\ net = [t \in Callers |-> "none"]
    /\ page = [t \in Callers |-> NoTable]
    /\ results = [t \in Callers |-> <<>>]
    /\ outcome = [t \in Callers |-> "none"]
    /\ logged = [t \in Callers |-> "none"]
    /\ starts = <<>>
    /\ stamps = <<>>
    /\ gets = <<>>
    /\ max_pages = [t \in Callers |-> DefaultMaxPages]
    /\ sent = [t \in Callers |-> 0]

\* The clock advances.
Tick ==
    /\ now < MaxClock
    /\ now' = now + 1
    /\ UNCHANGED <<last_request_time, pc, calls, current_time, wake, starts, stamps, gets, sent>>
    /\ UNCHANGED callVars

\* search_terms is entered: results = [], quote(query), base_url.format(...).
\* quote runs before the try block, so what it raises reaches the caller.
StartCall(t, q, mp, limit) ==
    /\ pc[t] = "idle"
    /\ calls[t] < limit
    /\ calls' = [calls EXCEPT ![t] = @ + 1]
    /\ starts' = Push2(starts, now)
    /\ query' = [query EXCEPT ![t] = q]
    /\ max_pages' = [max_pages EXCEPT ![t] = mp]
    /\ sent' = [sent EXCEPT ![t] = 0]
    /\ results' = [results EXCEPT ![t] = <<>>]
    /\ net' = [net EXCEPT ![t] = "none"]
    /\ page' = [page EXCEPT ![t] = NoTable]
    /\ logged' = [logged EXCEPT ![t] = "none"]
    /\ IF QuoteRaises(q)
       THEN /\ outcome' = [outcome EXCEPT ![t] = "raised"]
            /\ search_url' = [search_url EXCEPT ![t] = <<>>]
            /\ pc' = pc
       ELSE /\ outcome' = [outcome EXCEPT ![t] = "none"]
            /\ search_url' = [search_url EXCEPT ![t] = SearchUrl(q)]
            /\ pc' = [pc EXCEPT ![t] = "read_clock"]
    /\ UNCHANGED <<now, last_request_time, current_time, wake, stamps, gets>>

\* current_time = time.time()
ReadClock(t) ==
    /\ pc[t] = "read_clock"
    /\ current_time' = [current_time EXCEPT ![t] = now]
    /\ pc' = [pc EXCEPT ![t] = "compare"]
    /\ UNCHANGED <<now, last_request_time, calls, wake, starts, stamps, gets, sent>>
    /\ UNCHANGED callVars

\* time_since_last_request = current_time - self.last_request_time
TimeSince(cur, last) == cur - last
MustSleepOnlyWhenNoTimePassed(since) == since <= 0
MustSleep(since) == since < Interval

\* if time_since_last_request < self.min_request_interval: time.sleep(...)
Compare(t) ==
    /\ pc[t] = "compare"
    /\ LET since == TimeSince(current_time[t], last_request_time)
       IN  IF MustSleep(since)
           THEN /\ wake' = [wake EXCEPT ![t] = now + (Interval - since)]
                /\ pc' = [pc EXCEPT ![t] = "sleep"]
           ELSE /\ wake' = wake
                /\ pc' = [pc EXCEPT ![t] = "write"]
    /\ UNCHANGED <<now, last_request_time, calls, current_time, starts, stamps, gets, sent>>
    /\ UNCHANGED callVars

\* time.sleep returns, no earlier than asked.
WakeUp(t) ==
    /\ pc[t] = "sleep"
    /\ now >= wake[t]
    /\ pc' = [pc EXCEPT ![t] = "write"]
    /\ UNCHANGED <<now, last_request_time, calls, current_time, wake, starts, stamps, gets, sent>>
    /\ UNCHANGED callVars

\* self.last_request_time = time.time()
WriteStamp(t) ==
    /\ pc[t] = "write"
    /\ last_request_time' = now
    /\ stamps' = Push2(stamps, now)
    /\ pc' = [pc EXCEPT ![t] = "get"]
    /\ UNCHANGED <<now, calls, current_time, wake, starts, gets, sent>>
    /\ UNCHANGED callVars

\* self.client.get(search_url): the request goes out.
SendGet(t) ==
    /\ pc[t] = "get"
    /\ gets' = Push2(gets, now)
    /\ sent' = [sent EXCEPT ![t] = @ + 1]
    /\ pc' = [pc EXCEPT ![t] = "await"]
    /\ UNCHANGED <<now, last_request_time, calls, current_time, wake, starts, stamps>>
    /\ UNCHANGED callVars

\* What the rest of search_terms does with the request's outcome n and, when
\* the request succeeded, the body pg: the value returned, the exception
\* logged, and whether the call returns or raises.
Finish(n, pg) ==
    LET parsed == ParsePage(pg)
        exc    == IF n # "ok" THEN n
                  ELSE IF parsed.raised THEN "IndexError" ELSE "none"
    IN  [results |-> IF n = "ok" THEN parsed.results ELSE <<>>,
         logged  |-> IF exc # "none" /\ Caught(exc) THEN exc ELSE "none",
         outcome |-> IF exc = "none" \/ Caught(exc) THEN "returned" ELSE "raised"]

\* The request ends (response, error status, transport error or timeout),
\* the body is parsed and search_terms returns.
Respond(t, n, pg) ==
    /\ pc[t] = "await"
    /\ LET f == Finish(n, pg)
       IN  /\ results' = [results EXCEPT ![t] = f.results]
           /\ logged' = [logged EXCEPT ![t] = f.logged]
           /\ outcome' = [outcome EXCEPT ![t] = f.outcome]
    /\ net' = [net EXCEPT ![t] = n]
    /\ page' = [page EXCEPT ![t] = IF n = "ok" THEN pg ELSE NoTable]
    /\ pc' = [pc EXCEPT ![t] = "idle"]
    /\ UNCHANGED <<now, last_request_time, calls, query, search_url, current_time,
                   wake, starts, stamps, gets, max_pages, sent>>

\* search_terms as one step of a caller that is alone on the instance: the
\* sleep, when there is one, lasts exactly as asked and the request takes no
\* time.
SearchTerms(q, n, pg) ==
    /\ \A t \in Callers : pc[t] = "idle"
    /\ calls' = [calls EXCEPT ![1] = @ + 1]
    /\ starts' = Push2(starts, now)
    /\ query' = [query EXCEPT ![1] = q]
    /\ max_pages' = [max_pages EXCEPT ![1] = DefaultMaxPages]
    /\ sent' = [sent EXCEPT ![1] = IF QuoteRaises(q) THEN 0 ELSE 1]
    /\ IF QuoteRaises(q)
       THEN /\ outcome' = [outcome EXCEPT ![1] = "raised"]
            /\ search_url' = [search_url EXCEPT ![1] = <<>>]
            /\ results' = [results EXCEPT ![1] = <<>>]
            /\ logged' = [logged EXCEPT ![1] = "none"]
            /\ net' = [net EXCEPT ![1] = "none"]
            /\ page' = [page EXCEPT ![1] = NoTable]
            /\ UNCHANGED <<now, last_request_time, current_time, wake, stamps, gets>>
       ELSE LET since == TimeSince(now, last_request_time)
                stamp == IF MustSleep(since) THEN now + (Interval - since) ELSE now
                f     == Finish(n, pg)
            IN  /\ search_url' = [search_url EXCEPT ![1] = SearchUrl(q)]
                /\ current_time' = [current_time EXCEPT ![1] = now]
                /\ wake' = [wake EXCEPT ![1] = IF MustSleep(since) THEN stamp ELSE @]
                /\ now' = stamp
                /\ last_request_time' = stamp
                /\ stamps' = Push2(stamps, stamp)
                /\ gets' = Push2(gets, stamp)
                /\ net' = [net EXCEPT ![1] = n]
                /\ page' = [page EXCEPT ![1] = IF n = "ok" THEN pg ELSE NoTable]
                /\ results' = [results EXCEPT ![1] = f.results]
                /\ logged' = [logged EXCEPT ![1] = f.logged]
                /\ outcome' = [outcome EXCEPT ![1] = f.outcome]
    /\ pc' = pc

\* Pages the step-wise specifications draw responses from.
FewPages ==
    {NoTable,
     Page(<<Row(<<TextCell(IdText), LinkCell(TermText, RelHref), TextCell(IdText)>>)>>)}
FewQueries == {<<"a">>, <<"&">>, <<Surrogate>>}
\* Values of max_pages: none, one, the default and one above it.
MaxPagesValues == {0, 1, DefaultMaxPages, DefaultMaxPages + 1}

(***************************************************************************)
(* TfidfVectorizer(lowercase=True, ngram_range=(1, 2),                     *)
(* stop_words='english'): the text is lowercased, its tokens are the runs  *)
(* of two or more word characters, stop words are dropped, and the         *)
(* features are the tokens and the pairs of adjacent tokens.               *)
(***************************************************************************)
NonWordChars == {" ", ",", "&", "?", Surrogate}
IsWordChar(c) == c \notin NonWordChars

\* str.lower()
LowerChar(c) ==
    CASE c = "W" -> "w"
      [] c = "T" -> "t"
      [] c = "I" -> "i"
      [] OTHER   -> c
Lower(text) == [i \in 1..Len(text) |-> LowerChar(text[i])]

\* token_pattern r"(?u)\b\w\w+\b"
KeepRun(run, acc) == IF Len(run) >= 2 THEN Append(acc, run) ELSE acc
RECURSIVE Runs(_, _, _)
Runs(text, run, acc) ==
    IF text = <<>> THEN KeepRun(run, acc)
    ELSE IF IsWordChar(Head(text)) THEN Runs(Tail(text), Append(run, Head(text)), acc)
    ELSE Runs(Tail(text), <<>>, KeepRun(run, acc))
Tokenize(text) == Runs(text, <<>>, <<>>)

\* The words of ENGLISH_STOP_WORDS the texts of the model use.
StopWords == {<<"t", "h", "e">>, <<"o", "f">>}
DropStopWords(tokens) == SelectSeq(tokens, LAMBDA w : w \notin StopWords)

\* _word_ngrams: the unigrams, then the bigrams of the tokens left.
Ngrams(tokens) ==
    [i \in 1..Len(tokens) |-> <<tokens[i]>>]
        \o [i \in 1..(Len(tokens) - 1) |-> <<tokens[i], tokens[i + 1]>>]

Analyze(text) == Ngrams(DropStopWords(Tokenize(Lower(text))))

Features(doc) == {doc[i] : i \in 1..Len(doc)}
Count(doc, g) == Cardinality({i \in 1..Len(doc) : doc[i] = g})

(***************************************************************************)
(* Fixed-point arithmetic: weights in thousandths, unit vectors in         *)
(* ten-thousandths, a cosine in hundred-millionths.                        *)
(***************************************************************************)
Milli == 10 * 10 * 10
Unit == 10 * Milli

\* The integer square root.
RECURSIVE SqrtBetween(_, _, _)
SqrtBetween(x, lo, hi) ==
    IF hi - lo <= 1 THEN lo
    ELSE LET mid == (lo + hi) \div 2
         IN  IF mid * mid <= x THEN SqrtBetween(x, mid, hi) ELSE SqrtBetween(x, lo, mid)
Sqrt(x) == IF x = 0 THEN 0 ELSE SqrtBetween(x, 1, 46341)

\* ln(a / b) for a >= b > 0, in ten-thousandths:
\* 2 * (z + z^3/3 + z^5/5 + ...) with z = (a - b) / (a + b).
RECURSIVE LnSeries(_, _, _, _)
LnSeries(z, power, k, acc) ==
    IF power = 0 THEN acc
    ELSE LnSeries(z, (((power * z) \div Unit) * z) \div Unit, k + 2, acc + power \div k)
Ln(a, b) == 2 * LnSeries(((a - b) * Unit) \div (a + b), ((a - b) * Unit) \div (a + b), 1, 0)

\* smooth_idf: idf = ln((1 + n) / (1 + df)) + 1, in thousandths.
Idf(n, df) == Milli + Ln(1 + n, 1 + df) \div 10

(***************************************************************************)
(* The vectorizer instance: what fit leaves on it (vocabulary_, idf_).     *)
(***************************************************************************)
Unfitted == [fitted |-> FALSE, vocabulary |-> {}, idf |-> <<>>]

\* _count_vocab raises ValueError("empty vocabulary; ...") when no document
\* yields a feature.
EmptyVocabulary(texts) == \A i \in 1..Len(texts) : Analyze(texts[i]) = <<>>

\* fit on first use only, the fitted state reused afterwards.
FitOnce(old, texts) ==
    IF old.fitted THEN old
    ELSE LET docs  == [i \in 1..Len(texts) |-> Analyze(texts[i])]
             vocab == UNION {Features(docs[i]) : i \in 1..Len(docs)}
         IN  [fitted |-> TRUE, vocabulary |-> vocab,
              idf |-> [g \in vocab |->
                         Idf(Len(docs),
                             Cardinality({i \in 1..Len(docs) : g \in Features(docs[i])}))]]

\* fit: the vocabulary and the idf weights of these texts replace what the
\* instance held.
Fit(old, texts) ==
    LET docs  == [i \in 1..Len(texts) |-> Analyze(texts[i])]
        vocab == UNION {Features(docs[i]) : i \in 1..Len(docs)}
    IN  [fitted |-> TRUE, vocabulary |-> vocab,
         idf |-> [g \in vocab |->
                    Idf(Len(docs),
                        Cardinality({i \in 1..Len(docs) : g \in Features(docs[i])}))]]

RECURSIVE SumOver(_, _)
SumOver(S, f) ==
    IF S = {} THEN 0
    ELSE LET g == CHOOSE x \in S : TRUE IN f[g] + SumOver(S \ {g}, f)

\* transform: tf * idf over the fitted vocabulary, rows scaled to unit length
\* (norm='l2'); a row without features stays zero.
TfidfRow(vec, text) ==
    LET doc  == Analyze(text)
        w    == [g \in vec.vocabulary |-> Count(doc, g) * vec.idf[g]]
        norm == Sqrt(SumOver(vec.vocabulary, [g \in vec.vocabulary |-> w[g] * w[g]]))
    IN  [g \in vec.vocabulary |-> IF norm = 0 THEN 0 ELSE (w[g] * Unit) \div norm]

\* cosine_similarity(query_vector, candidate_vectors)[0][i] of unit rows.
Cosine(vocab, x, y) == SumOver(vocab, [g \in vocab |-> x[g] * y[g]])

\* round(float(score), 3), in thousandths.
Round3(c) == (c + (Unit * Unit) \div (2 * Milli)) \div ((Unit * Unit) \div Milli)

(***************************************************************************)
(* np.argsort(similarities): ascending; the default kind is not stable, so *)
(* the order among equal scores is whatever the build's sort yields, the   *)
(* same on every call.  "stable" keeps equal scores in index order (the    *)
(* insertion sort numpy runs on short arrays), "reversed" stands for a     *)
(* build that does not.                                                    *)
(***************************************************************************)
TieOrders == {"stable", "reversed"}

Before(xs, ties, i, j) ==
    \/ xs[i] < xs[j]
    \/ xs[i] = xs[j] /\ (IF ties = "stable" THEN i < j ELSE i > j)

ArgSort(xs, ties) ==
    [k \in 1..Len(xs) |->
        CHOOSE i \in 1..Len(xs) :
            Cardinality({j \in 1..Len(xs) : Before(xs, ties, j, i)}) = k - 1]

\* seq[start:] as Python slices: a negative start counts from the end, and
\* -0 is 0.
SliceFrom(seq, start) ==
    LET n    == Len(seq)
        from == IF start < 0 THEN (IF n + start < 0 THEN 0 ELSE n + start)
                ELSE (IF start > n THEN n ELSE start)
    IN  SubSeq(seq, from + 1, n)

NotReversed(seq) == seq
\* seq[::-1]
Reversed(seq) == [k \in 1..Len(seq) |-> seq[Len(seq) + 1 - k]]

\* top_indices = np.argsort(similarities)[-top_k:][::-1]
TopIndices(similarities, top_k, ties) ==
    Reversed(SliceFrom(ArgSort(similarities, ties), -top_k))

\* " ".join(query_terms)
RECURSIVE Join(_)
Join(terms) ==
    IF terms = <<>> THEN <<>>
    ELSE IF Len(terms) = 1 THEN terms[1]
    ELSE terms[1] \o <<" ">> \o Join(Tail(terms))

\* if not query_terms or not candidates
EmptyInputBoth(query_terms, candidates) == query_terms = <<>> /\ candidates = <<>>
EmptyInput(query_terms, candidates) == query_terms = <<>> \/ candidates = <<>>

\* compute_similarities on an engine whose vectorizer is in state vec: the
\* value returned or the exception raised, the state the vectorizer is left
\* in, and the scores of all candidates, before the cut.
ComputeSimilaritiesOn(vec, ties, query_terms, candidates, top_k) ==
    IF EmptyInput(query_terms, candidates)
    THEN [raised |-> FALSE, value |-> <<>>, vec |-> vec, scores |-> <<>>]
    ELSE LET query_text      == Join(query_terms)
             candidate_terms == [i \in 1..Len(candidates) |-> candidates[i].term]
             all_texts       == <<query_text>> \o candidate_terms
         IN  IF EmptyVocabulary(all_texts)
             THEN [raised |-> TRUE, value |-> <<>>, vec |-> vec, scores |-> <<>>]
             ELSE LET fitted       == Fit(vec, all_texts)
                      query_vector == TfidfRow(fitted, query_text)
                      similarities ==
                          [i \in 1..Len(candidates) |->
                              Cosine(fitted.vocabulary, query_vector,
                                     TfidfRow(fitted, candidate_terms[i]))]
                      top_indices  == TopIndices(similarities, top_k, ties)
                  IN  [raised |-> FALSE,
                       value  |-> [k \in 1..Len(top_indices) |->
                                     [term |-> candidates[top_indices[k]].term,
                                      id   |-> candidates[top_indices[k]].id,
                                      url  |-> candidates[top_indices[k]].url,
                                      similarity_score |->
                                          Round3(similarities[top_indices[k]])]],
                       vec    |-> fitted,
                       scores |-> similarities]

(***************************************************************************)
(* State of the SimilarityEngine instance and of its last call.            *)
(***************************************************************************)
VARIABLES
    build,        \* the tie order of the build's argsort
    vectorizer,   \* self.vectorizer
    r_called,     \* whether compute_similarities has been called
    r_in,         \* the arguments of the last call
    r_out,        \* what the last call returned or raised
    ref_set,      \* whether an earlier call is remembered
    ref_in,       \* the arguments of the remembered call
    ref_out,      \* what the remembered call returned or raised
    ref_gap       \* whether a call with other arguments, or a new engine, came since

rankVars ==
    <<build, vectorizer, r_called, r_in, r_out, ref_set, ref_in, ref_out, ref_gap>>

NoInput == [query_terms |-> <<>>, candidates |-> <<>>, top_k |-> 0]
NoOutput == [raised |-> FALSE, value |-> <<>>, scores |-> <<>>]

EngineIdle ==
    /\ vectorizer = Unfitted
    /\ r_called = FALSE
    /\ r_in = NoInput
    /\ r_out = NoOutput
    /\ ref_set = FALSE
    /\ ref_in = NoInput
    /\ ref_out = NoOutput
    /\ ref_gap = FALSE

InitEngine == build \in TieOrders /\ EngineIdle

\* similarity_engine.compute_similarities(query_terms, candidates, top_k);
\* the call is remembered, for a later comparison, when remember holds.
ComputeSimilarities(query_terms, candidates, top_k, remember) ==
    LET r   == ComputeSimilaritiesOn(vectorizer, build, query_terms, candidates, top_k)
        in  == [query_terms |-> query_terms, candidates |-> candidates, top_k |-> top_k]
        out == [raised |-> r.raised, value |-> r.value, scores |-> r.scores]
    IN  /\ vectorizer' = r.vec
        /\ r_called' = TRUE
        /\ r_in' = in
        /\ r_out' = out
        /\ IF remember
           THEN ref_set' = TRUE /\ ref_in' = in /\ ref_out' = out /\ ref_gap' = FALSE
           ELSE /\ UNCHANGED <<ref_set, ref_in, ref_out>>
                /\ ref_gap' = (ref_gap \/ (ref_set /\ in # ref_in))
        /\ build' = build

\* similarity_engine = SimilarityEngine(): the module is loaded anew (a
\* restart, a reload) and the engine starts from a fresh vectorizer.
NewEngine ==
    /\ vectorizer # Unfitted
    /\ vectorizer' = Unfitted
    /\ ref_gap' = (ref_gap \/ ref_set)
    /\ UNCHANGED <<build, r_called, r_in, r_out, ref_set, ref_in, ref_out>>

(***************************************************************************)
(* State of one recommend request (main.py), served by the module's one    *)
(* scraper and one similarity engine.                                      *)
(***************************************************************************)
VARIABLES
    rec_pc,          \* "idle", "searching" or "done"
    rec_terms,       \* req.terms
    all_candidates,  \* the local all_candidates
    search_log,      \* the terms search_terms was called with, in call order
    found,           \* what each of these calls returned
    rank_calls,      \* compute_similarities calls of the request
    rank_args,       \* the candidates of the last of them
    rec_status,      \* the response status: 200, 400, 404, or 500 for an exception
    recommendations  \* the recommendations of a 200 response

recVars ==
    <<rec_pc, rec_terms, all_candidates, search_log, found, rank_calls, rank_args,
      rec_status, recommendations>>

(***************************************************************************)
(* RateLimiter (main.py): per client, the instants of the requests it      *)
(* allowed that are still inside the time window.                          *)
(***************************************************************************)
\* Clients (values of request.client.host).
NumClients == 2
\* Largest rate_limit an instance is built with.
MaxRateLimit == 2
\* Largest time_window an instance is built with, in seconds.
MaxTimeWindow == 2
\* Instants datetime.now() runs through, in ticks.
MaxWall == 5
\* is_allowed calls on the instance.
MaxLimiterCalls == 5

Clients == 1..NumClients

VARIABLES
    rate_limit,   \* self.rate_limit
    time_window,  \* self.time_window, in seconds
    requests,     \* self.requests: per client, whether it has an entry, and the entry
    wall,         \* datetime.now(), in ticks
    lim_calls,    \* is_allowed calls made
    lim_result,   \* the client and the value returned of the last call
    allowed       \* per client, the instants of all calls that returned True

limVars == <<rate_limit, time_window, requests, wall, lim_calls, lim_result, allowed>>

\* A client id that is not in self.requests.
NoEntry == [present |-> FALSE, times |-> <<>>]

\* RateLimiter(rate_limit, time_window): self.requests = {}
InitLimiter ==
    /\ rate_limit \in 1..MaxRateLimit
    /\ time_window \in 1..MaxTimeWindow
    /\ requests = [c \in Clients |-> NoEntry]
    /\ wall = 0
    /\ lim_calls = 0
    /\ lim_result = [client |-> 0, value |-> FALSE]
    /\ allowed = [c \in Clients |-> <<>>]

\* timedelta(seconds=self.time_window), in ticks
WindowTicks(seconds) == seconds * TicksPerSecond

\* now - req_time < timedelta(seconds=self.time_window)
StillInWindowButLast(nw, req_time, window) == nw - req_time < window - 1
StillInWindow(nw, req_time, window) == nw - req_time < window

\* [req_time for req_time in self.requests[client_id] if ...]
Pruned(times, nw, window) ==
    SelectSeq(times, LAMBDA req_time : StillInWindow(nw, req_time, window))

\* len(self.requests[client_id]) >= self.rate_limit
AtLimit(times, limit) == Len(times) >= limit

\* rate_limiter.is_allowed(client_id)
IsAllowed(client_id) ==
    LET kept == Pruned(requests[client_id].times, wall, WindowTicks(time_window))
        ok   == ~AtLimit(kept, rate_limit)
    IN  /\ lim_calls < MaxLimiterCalls
        /\ lim_calls' = lim_calls + 1
        /\ requests' = [requests EXCEPT ![client_id] =
                           [present |-> TRUE,
                            times   |-> IF ok THEN Append(kept, wall) ELSE kept]]
        /\ lim_result' = [client |-> client_id, value |-> ok]
        /\ allowed' = [allowed EXCEPT ![client_id] = IF ok THEN Append(@, wall) ELSE @]
        /\ UNCHANGED <<rate_limit, time_window, wall>>

\* datetime.now() advances.
WallTick ==
    /\ wall < MaxWall
    /\ wall' = wall + 1
    /\ UNCHANGED <<rate_limit, time_window, requests, lim_calls, lim_result, allowed>>

(***************************************************************************)
(* json.loads on the text of a string: values are records of one shape,    *)
(* the kind of the value, its text (strings, numbers, literals) and its    *)
(* items (lists; the keys and values of objects, in turn).                 *)
(***************************************************************************)
StrValue(text) == [kind |-> "str", text |-> text, items |-> <<>>]
ListValue(items) == [kind |-> "list", text |-> <<>>, items |-> items]
DictValue(items) == [kind |-> "dict", text |-> <<>>, items |-> items]
AtomValue(kind, text) == [kind |-> kind, text |-> text, items |-> <<>>]

JsonWhitespace == {" ", "\t", "\n", "\r"}
JsonDigits == {"0", "1", "2", "3", "4", "5", "6", "7", "8", "9"}
\* The literals json.loads knows, and the kind of value each one yields.
JsonLiterals ==
    <<[text |-> <<"t", "r", "u", "e">>, kind |-> "bool"],
      [text |-> <<"f", "a", "l", "s", "e">>, kind |-> "bool"],
      [text |-> <<"n", "u", "l", "l">>, kind |-> "none"],
      [text |-> <<"N", "a", "N">>, kind |-> "num"],
      [text |-> <<"I", "n", "f", "i", "n", "i", "t", "y">>, kind |-> "num"],
      [text |-> <<"-", "I", "n", "f", "i", "n", "i", "t", "y">>, kind |-> "num"]>>

\* A parse that failed: json.JSONDecodeError.
JsonFail == [ok |-> FALSE, val |-> AtomValue("none", <<>>), next |-> 0]
JsonOk(val, next) == [ok |-> TRUE, val |-> val, next |-> next]

HasPrefix(s, i, lit) ==
    /\ i + Len(lit) - 1 <= Len(s)
    /\ SubSeq(s, i, i + Len(lit) - 1) = lit

RECURSIVE SkipWhitespace(_, _)
SkipWhitespace(s, i) ==
    IF i <= Len(s) /\ s[i] \in JsonWhitespace THEN SkipWhitespace(s, i + 1) ELSE i

RECURSIVE SkipDigits(_, _)
SkipDigits(s, i) ==
    IF i <= Len(s) /\ s[i] \in JsonDigits THEN SkipDigits(s, i + 1) ELSE i

\* The index of the quote that closes the string opened before i, or 0:
\* control characters are not allowed inside a string.
RECURSIVE ClosingQuote(_, _)
ClosingQuote(s, i) ==
    IF i > Len(s) \/ s[i] \in {"\t", "\n", "\r"} THEN 0
    ELSE IF s[i] = "\"" THEN i
    ELSE ClosingQuote(s, i + 1)

\* -?(0|[1-9][0-9]*)(\.[0-9]+)? starting at i: the index after it, or 0.
NumberEnd(s, i) ==
    LET d == IF i <= Len(s) /\ s[i] = "-" THEN i + 1 ELSE i
        e == IF d > Len(s) \/ s[d] \notin JsonDigits THEN 0
             ELSE IF s[d] = "0" THEN d + 1
             ELSE SkipDigits(s, d)
    IN  IF e = 0 THEN 0
        ELSE IF e + 1 <= Len(s) /\ s[e] = "." /\ s[e + 1] \in JsonDigits
             THEN SkipDigits(s, e + 1)
             ELSE e

ParseString(s, i) ==
    LET j == ClosingQuote(s, i + 1)
    IN  IF j = 0 THEN JsonFail ELSE JsonOk(StrValue(SubSeq(s, i + 1, j - 1)), j + 1)

ParseLiteral(s, i) ==
    LET hits == {k \in 1..Len(JsonLiterals) : HasPrefix(s, i, JsonLiterals[k].text)}
    IN  IF hits = {} THEN JsonFail
        ELSE LET k == CHOOSE k \in hits : TRUE
             IN  JsonOk(AtomValue(JsonLiterals[k].kind, JsonLiterals[k].text),
                        i + Len(JsonLiterals[k].text))

ParseNumber(s, i) ==
    LET e == NumberEnd(s, i)
    IN  IF e = 0 THEN JsonFail ELSE JsonOk(AtomValue("num", SubSeq(s, i, e - 1)), e)

\* The value that starts at s[i], and the index after it.
RECURSIVE ParseValue(_, _)
RECURSIVE ParseElements(_, _, _)
RECURSIVE ParseMembers(_, _, _)
ParseValue(s, i) ==
    IF i > Len(s) THEN JsonFail
    ELSE IF s[i] = "\"" THEN ParseString(s, i)
    ELSE IF s[i] = "[" THEN
        LET k == SkipWhitespace(s, i + 1)
        IN  IF k <= Len(s) /\ s[k] = "]" THEN JsonOk(ListValue(<<>>), k + 1)
            ELSE ParseElements(s, k, <<>>)
    ELSE IF s[i] = "{" THEN
        LET k == SkipWhitespace(s, i + 1)
        IN  IF k <= Len(s) /\ s[k] = "}" THEN JsonOk(DictValue(<<>>), k + 1)
            ELSE ParseMembers(s, k, <<>>)
    ELSE IF ParseLiteral(s, i).ok THEN ParseLiteral(s, i)
    ELSE ParseNumber(s, i)

\* value (, value)* ] from s[i] on, after the items of acc.
ParseElements(s, i, acc) ==
    LET v == ParseValue(s, i)
        k == SkipWhitespace(s, v.next)
    IN  IF ~v.ok \/ k > Len(s) THEN JsonFail
        ELSE IF s[k] = "," THEN
            ParseElements(s, SkipWhitespace(s, k + 1), Append(acc, v.val))
        ELSE IF s[k] = "]" THEN JsonOk(ListValue(Append(acc, v.val)), k + 1)
        ELSE JsonFail

\* "key" : value (, "key" : value)* } from s[i] on, after the items of acc.
ParseMembers(s, i, acc) ==
    IF i > Len(s) \/ s[i] # "\"" THEN JsonFail
    ELSE LET key == ParseString(s, i)
             c   == SkipWhitespace(s, key.next)
         IN  IF ~key.ok \/ c > Len(s) \/ s[c] # ":" THEN JsonFail
             ELSE LET v == ParseValue(s, SkipWhitespace(s, c + 1))
                      k == SkipWhitespace(s, v.next)
                  IN  IF ~v.ok \/ k > Len(s) THEN JsonFail
                      ELSE IF s[k] = "," THEN
                          ParseMembers(s, SkipWhitespace(s, k + 1),
                                       acc \o <<key.val, v.val>>)
                      ELSE IF s[k] = "}" THEN
                          JsonOk(DictValue(acc \o <<key.val, v.val>>), k + 1)
                      ELSE JsonFail

\* json.loads(text): one value, whitespace around it and nothing else.
JsonLoads(text) ==
    LET v == ParseValue(text, SkipWhitespace(text, 1))
    IN  IF v.ok /\ SkipWhitespace(text, v.next) = Len(text) + 1
        THEN [raised |-> FALSE, value |-> v.val]
        ELSE [raised |-> TRUE, value |-> AtomValue("none", <<>>)]

(***************************************************************************)
(* RecommendRequest.validate_terms (main.py).                              *)
(***************************************************************************)
\* raise ValueError("Terms must be either a list of strings or a single string")
ValueErrorRaised == [raised |-> TRUE, value |-> AtomValue("none", <<>>)]
Validated(value) == [raised |-> FALSE, value |-> value]

\* validate_terms(cls, v): the value returned, or ValueError raised.
ValidateTermsOf(v) ==
    IF v.kind = "str"
    THEN LET parsed == JsonLoads(v.text)
         IN  IF parsed.raised THEN Validated(ListValue(<<v>>))
             ELSE IF parsed.value.kind = "list" THEN Validated(parsed.value)
             ELSE ValueErrorRaised
    ELSE IF v.kind = "list" THEN Validated(v)
    ELSE ValueErrorRaised

VARIABLES
    val_done,  \* whether validate_terms has run
    val_in,    \* its argument v
    val_out    \* what it returned or raised

valVars == <<val_done, val_in, val_out>>

InitValidate ==
    /\ val_done = FALSE
    /\ val_in = ListValue(<<>>)
    /\ val_out = Validated(ListValue(<<>>))

\* RecommendRequest(terms=v): the validator runs on the terms field.
ValidateTerms(v) ==
    /\ ~val_done
    /\ val_done' = TRUE
    /\ val_in' = v
    /\ val_out' = ValidateTermsOf(v)

apiVars == <<limVars, valVars>>

\* The process before any request: no is_allowed call made, on the
\* instance's smallest limits.
LimiterIdle == InitLimiter /\ rate_limit = 1 /\ time_window = 1

vars == <<scraperVars, rankVars, recVars, apiVars>>

InitRecommend ==
    /\ rec_pc = "idle"
    /\ rec_terms = <<>>
    /\ all_candidates = <<>>
    /\ search_log = <<>>
    /\ found = <<>>
    /\ rank_calls = 0
    /\ rank_args = <<>>
    /\ rec_status = 0
    /\ recommendations = <<>>

\* top_k=20
RecommendTopK == 20

\* The handler is entered: if not req.terms: raise HTTPException(400).
RecStart(terms) ==
    /\ rec_pc = "idle"
    /\ rec_terms' = terms
    /\ all_candidates' = <<>>
    /\ search_log' = <<>>
    /\ found' = <<>>
    /\ rank_calls' = 0
    /\ rank_args' = <<>>
    /\ recommendations' = <<>>
    /\ IF terms = <<>>
       THEN rec_status' = 400 /\ rec_pc' = "done"
       ELSE rec_status' = 0 /\ rec_pc' = "searching"

\* One turn of the loop: candidates = scraper.search_terms(term);
\* all_candidates.extend(candidates).  What search_terms raises leaves the
\* handler.
RecSearch(n, pg) ==
    /\ rec_pc = "searching"
    /\ Len(search_log) < Len(rec_terms)
    /\ LET term == rec_terms[Len(search_log) + 1]
       IN  /\ SearchTerms(term, n, pg)
           /\ search_log' = Append(search_log, term)
    /\ IF outcome'[1] = "raised"
       THEN /\ rec_status' = 500
            /\ rec_pc' = "done"
            /\ UNCHANGED <<all_candidates, found>>
       ELSE /\ all_candidates' = all_candidates \o results'[1]
            /\ found' = Append(found, results'[1])
            /\ UNCHANGED <<rec_status, rec_pc>>
    /\ UNCHANGED <<rec_terms, rank_calls, rank_args, recommendations>>

\* After the loop: 404 when nothing was found, else compute_similarities and
\* the response.
RecRank ==
    /\ rec_pc = "searching"
    /\ Len(search_log) = Len(rec_terms)
    /\ rec_pc' = "done"
    /\ IF all_candidates = <<>>
       THEN /\ rec_status' = 404
            /\ UNCHANGED <<rank_calls, rank_args, recommendations>>
            /\ UNCHANGED rankVars
       ELSE /\ ComputeSimilarities(rec_terms, all_candidates, RecommendTopK, FALSE)
            /\ rank_calls' = rank_calls + 1
            /\ rank_args' = all_candidates
            /\ IF r_out'.raised
               THEN rec_status' = 500 /\ recommendations' = <<>>
               ELSE rec_status' = 200 /\ recommendations' = r_out'.value
    /\ UNCHANGED <<rec_terms, all_candidates, search_log, found>>

\* The response is sent; the next request may come.
RecEnd ==
    /\ rec_pc = "done"
    /\ rec_pc' = "idle"
    /\ UNCHANGED <<rec_terms, all_candidates, search_log, found, rank_calls, rank_args,
                   rec_status, recommendations>>

(***************************************************************************)
(* SpecConc: NumCallers callers inside search_terms of one instance, their *)
(* steps interleaved in every way.                                         *)
(***************************************************************************)
InitScraperOnly ==
    InitScraper /\ build = "stable" /\ EngineIdle /\ InitRecommend /\ LimiterIdle /\ InitValidate

NextConc ==
    \/ Tick /\ UNCHANGED <<rankVars, recVars, apiVars>>
    \/ \E t \in Callers, q \in {<<"a">>} :
           StartCall(t, q, DefaultMaxPages, 1) /\ UNCHANGED <<rankVars, recVars, apiVars>>
    \/ \E t \in Callers : ReadClock(t) /\ UNCHANGED <<rankVars, recVars, apiVars>>
    \/ \E t \in Callers : Compare(t) /\ UNCHANGED <<rankVars, recVars, apiVars>>
    \/ \E t \in Callers : WakeUp(t) /\ UNCHANGED <<rankVars, recVars, apiVars>>
    \/ \E t \in Callers : WriteStamp(t) /\ UNCHANGED <<rankVars, recVars, apiVars>>
    \/ \E t \in Callers : SendGet(t) /\ UNCHANGED <<rankVars, recVars, apiVars>>
    \/ \E t \in Callers, n \in {"ok", "ReadTimeout"} :
           Respond(t, n, NoTable) /\ UNCHANGED <<rankVars, recVars, apiVars>>

SpecConc == InitScraperOnly /\ [][NextConc]_vars

(***************************************************************************)
(* SpecSeq: one caller, one call after the other.                          *)
(***************************************************************************)
NextSeq ==
    \/ Tick /\ UNCHANGED <<rankVars, recVars, apiVars>>
    \/ \E q \in FewQueries, mp \in MaxPagesValues :
           StartCall(1, q, mp, MaxCalls) /\ UNCHANGED <<rankVars, recVars, apiVars>>
    \/ ReadClock(1) /\ UNCHANGED <<rankVars, recVars, apiVars>>
    \/ Compare(1) /\ UNCHANGED <<rankVars, recVars, apiVars>>
    \/ WakeUp(1) /\ UNCHANGED <<rankVars, recVars, apiVars>>
    \/ WriteStamp(1) /\ UNCHANGED <<rankVars, recVars, apiVars>>
    \/ SendGet(1) /\ UNCHANGED <<rankVars, recVars, apiVars>>
    \/ \E n \in NetOutcomes, pg \in FewPages :
           Respond(1, n, pg) /\ UNCHANGED <<rankVars, recVars, apiVars>>

SpecSeq == InitScraperOnly /\ [][NextSeq]_vars

(***************************************************************************)
(* SpecSearch: one search_terms call on a fresh instance, for every query  *)
(* and every outcome of the request.                                       *)
(***************************************************************************)
NextSearch ==
    /\ calls[1] = 0
    /\ \E q \in Queries, n \in NetOutcomes :
           \E pg \in (IF n = "ok" THEN Pages(MaxEntries) ELSE {NoTable}) :
               SearchTerms(q, n, pg)
    /\ UNCHANGED <<rankVars, recVars, apiVars>>

SpecSearch == InitScraperOnly /\ [][NextSearch]_vars

(***************************************************************************)
(* SpecRank: one compute_similarities call on a fresh engine, for every    *)
(* list of query terms, list of candidates and top_k of the bounds.        *)
(***************************************************************************)
\* Candidates of one call.
MaxCands == 3

S_War == <<"W", "a", "r">>
S_the == <<"t", "h", "e">>
S_ox == <<"o", "x">>
S_war_ox == <<"w", "a", "r", " ", "o", "x">>

RankTexts == {<<>>, S_the, S_War, S_war_ox}
QueryLists == {<<>>, <<<<>>>>, <<S_the>>, <<S_War>>, <<S_ox, S_War>>}
TopKs == -1..(MaxCands + 1)

Digits == <<"1", "2", "3", "4", "5", "6">>
\* The i-th candidate of a pool: identifiers differ, as within one vocabulary.
Candidate(text, i) ==
    [term |-> text, id |-> <<"s", "h", Digits[i]>>,
     url |-> <<"https://id.loc.gov", "/", Digits[i]>>]
CandidateLists ==
    {[i \in 1..Len(ts) |-> Candidate(ts[i], i)] : ts \in SeqsUpTo(RankTexts, MaxCands)}

InitRank == InitScraper /\ InitEngine /\ InitRecommend /\ LimiterIdle /\ InitValidate

NextRank ==
    /\ ~r_called
    /\ \E q \in QueryLists, c \in CandidateLists, k \in TopKs :
           ComputeSimilarities(q, c, k, FALSE)
    /\ UNCHANGED <<scraperVars, recVars, apiVars>>

SpecRank == InitRank /\ [][NextRank]_vars

(***************************************************************************)
(* SpecEngine: any number of compute_similarities calls on one engine, one *)
(* earlier call remembered.                                                *)
(***************************************************************************)
EngineQueries == {<<S_War>>, <<S_ox>>}
EngineCandidates ==
    {<<Candidate(S_War, 1)>>,
     <<Candidate(S_war_ox, 1), Candidate(S_War, 2)>>,
     <<Candidate(S_the, 1), Candidate(S_war_ox, 2), Candidate(S_war_ox, 3)>>}

NextEngine ==
    \/ \E q \in EngineQueries, c \in EngineCandidates, k \in 1..2, remember \in BOOLEAN :
           ComputeSimilarities(q, c, k, remember) /\ UNCHANGED <<scraperVars, recVars, apiVars>>
    \/ NewEngine /\ UNCHANGED <<scraperVars, recVars, apiVars>>

SpecEngine == InitRank /\ [][NextEngine]_vars

(***************************************************************************)
(* SpecEmpty: one engine, fitted by at most one call, and any number of    *)
(* calls whose query_terms or candidates is empty, before and after.       *)
(***************************************************************************)
NextEmpty ==
    \/ /\ vectorizer = Unfitted
       /\ \E q \in EngineQueries, c \in EngineCandidates :
              ComputeSimilarities(q, c, 1, FALSE)
       /\ UNCHANGED <<scraperVars, recVars, apiVars>>
    \/ /\ \E q \in EngineQueries \cup {<<>>}, c \in EngineCandidates \cup {<<>>},
             k \in TopKs :
              /\ q = <<>> \/ c = <<>>
              /\ ComputeSimilarities(q, c, k, FALSE)
       /\ UNCHANGED <<scraperVars, recVars, apiVars>>

SpecEmpty == InitRank /\ [][NextEmpty]_vars

(***************************************************************************)
(* SpecRecommend: recommend requests, one after the other, on the module's *)
(* scraper and engine.                                                     *)
(***************************************************************************)
\* Terms of one request.
MaxTerms == 2
\* Requests served.
MaxRequests == 2

RecStrings == {S_War, S_the, <<Surrogate>>}
RecPages ==
    {NoTable,
     Page(<<Row(<<TextCell(IdText), LinkCell(S_War, RelHref), TextCell(IdText)>>)>>),
     Page(<<Row(<<TextCell(IdText), LinkCell(S_the, RelHref), TextCell(IdText)>>),
            Row(<<TextCell(IdText), LinkCell(S_war_ox, AbsHref), TextCell(IdText)>>)>>)}

NextRecommend ==
    \/ \E terms \in SeqsUpTo(RecStrings, MaxTerms) :
           /\ calls[1] < MaxRequests * MaxTerms
           /\ RecStart(terms)
           /\ UNCHANGED <<scraperVars, rankVars, apiVars>>
    \/ \E n \in NetOutcomes :
           \E pg \in (IF n = "ok" THEN RecPages ELSE {NoTable}) :
               RecSearch(n, pg) /\ UNCHANGED <<rankVars, apiVars>>
    \/ RecRank /\ UNCHANGED <<scraperVars, apiVars>>
    \/ RecEnd /\ UNCHANGED <<scraperVars, rankVars, apiVars>>

SpecRecommend == InitRank /\ [][NextRecommend]_vars

(***************************************************************************)
(* SpecLimiter: is_allowed calls of the clients on one RateLimiter, built  *)
(* with every rate_limit and time_window of the bounds, as time passes.    *)
(***************************************************************************)
InitLimiterOnly ==
    /\ InitScraper /\ build = "stable" /\ EngineIdle /\ InitRecommend
    /\ InitLimiter /\ InitValidate

NextLimiter ==
    \/ WallTick /\ UNCHANGED <<scraperVars, rankVars, recVars, valVars>>
    \/ \E c \in Clients :
           IsAllowed(c) /\ UNCHANGED <<scraperVars, rankVars, recVars, valVars>>

SpecLimiter == InitLimiterOnly /\ [][NextLimiter]_vars

(***************************************************************************)
(* SpecValidate: validate_terms on one terms field, a string of the bounds *)
(* or a list of strings.                                                   *)
(***************************************************************************)
\* Length of a terms string, in characters.
MaxJsonLen == 3

JsonChars == {"a", "1", "\"", "[", "]", "{", "}", ",", " "}
TermsStrings ==
    SeqsUpTo(JsonChars, MaxJsonLen)
        \cup {JsonLiterals[k].text : k \in 1..Len(JsonLiterals)}
        \cup {<<"[", "\"", "a", "\"", ",", " ", "1", "]">>,
              <<"{", "\"", "a", "\"", ":", "1", "}">>,
              <<"-", "1", ".", "1">>, <<"0", "1">>}
TermsLists == {[i \in 1..Len(ts) |-> StrValue(ts[i])] : ts \in SeqsUpTo({S_War, S_ox}, 2)}
TermsFields == {StrValue(t) : t \in TermsStrings} \cup {ListValue(l) : l \in TermsLists}

InitValidateOnly ==
    /\ InitScraper /\ build = "stable" /\ EngineIdle /\ InitRecommend
    /\ LimiterIdle /\ InitValidate

NextValidate ==
    \E v \in TermsFields :
        ValidateTerms(v) /\ UNCHANGED <<scraperVars, rankVars, recVars, limVars>>

SpecValidate == InitValidateOnly /\ [][NextValidate]_vars

(***************************************************************************)
(* Claims about the scraper.                                               *)
(***************************************************************************)
\* Callers that have read last_request_time and not yet written it.
InCritical == {t \in Callers : pc[t] \in {"sleep", "write"}}

\* C1: with several callers inside search_terms of one instance, access to
\* last_request_time is mutually exclusive and no two outbound GETs are
\* issued less than min_request_interval apart.
C1_ExclusiveAndSpaced ==
    /\ Cardinality(InCritical) <= 1
    /\ Len(gets) = 2 => gets[2] - gets[1] >= Interval

\* C2 as claimed: two consecutive calls start at least min_request_interval
\* apart, measured from call start to call start.
C2_StartToStart == Len(starts) = 2 => starts[2] - starts[1] >= Interval

\* C2 as amended: the rate-limit clearances of two consecutive calls of one
\* caller (the values written to last_request_time) are at least
\* min_request_interval apart, whatever the first call's request did.
C2_StampToStamp == Len(stamps) = 2 => stamps[2] - stamps[1] >= Interval

\* Two calls started within the interval, the second held back by the sleep.
C2_Witness ==
    /\ Len(starts) = 2 /\ starts[2] - starts[1] < Interval
    /\ Len(stamps) = 2 /\ stamps[2] - stamps[1] = Interval
    /\ wake[1] = stamps[2]

\* C3: search_terms never raises, whatever the query string.
C3_NeverRaises == \A t \in Callers : outcome[t] # "raised"

\* A result group whose row lacks the identifier cell or has fewer cells:
\* the heading is the second cell, the identifier a later, last one.
Malformed(e) == e.hasRow /\ Len(e.cells) <= 2

\* What a page yields when every group is parsed on its own and a malformed
\* group yields nothing.
SkippingMalformed(pg) ==
    Flatten([i \in 1..Len(pg.entries) |->
                IF Malformed(pg.entries[i]) THEN <<>>
                ELSE ParseEntry(pg.entries[i]).recs])

\* C4: a malformed result group yields no record and every other group of
\* the same response, before or after it, yields its record.
C4_MalformedSkipped ==
    \A t \in Callers :
        net[t] = "ok" => results[t] = SkippingMalformed(page[t])

\* C8: a transport error, an error status or a timeout of the request ends
\* the call with an empty sequence returned and nothing raised, as a
\* response without results does.
C8_RequestErrorsGiveEmpty ==
    \A t \in Callers :
        net[t] \in RequestErrors =>
            /\ outcome[t] = "returned"
            /\ results[t] = <<>>
            /\ results[t] = Finish("ok", NoTable).results
            /\ outcome[t] = Finish("ok", NoTable).outcome

\* A call whose request timed out has returned.
C8_Witness ==
    /\ net[1] = "ReadTimeout" /\ logged[1] = "ReadTimeout"
    /\ pc[1] = "idle" /\ outcome[1] = "returned"

(***************************************************************************)
(* Claims about the similarity engine.                                     *)
(***************************************************************************)
\* The last call had query terms and candidates and returned a sequence.
Ranked == r_called /\ r_in.query_terms # <<>> /\ r_in.candidates # <<>> /\ ~r_out.raised

\* The place, in the candidates of the last call, of its k-th result.
Place(k) ==
    CHOOSE i \in 1..Len(r_in.candidates) : r_in.candidates[i].id = r_out.value[k].id
Places == {Place(k) : k \in 1..Len(r_out.value)}

Descending ==
    \A k \in 1..(Len(r_out.value) - 1) :
        /\ r_out.scores[Place(k)] >= r_out.scores[Place(k + 1)]
        /\ r_out.value[k].similarity_score >= r_out.value[k + 1].similarity_score

\* C5 as claimed: the result is in descending score order, equal scores
\* come in input order, and of equal scores at the top_k cut the earliest
\* in input order are kept.
C5_DescendingStable ==
    Ranked =>
        /\ Descending
        /\ \A k, l \in 1..Len(r_out.value) :
               k < l /\ r_out.scores[Place(k)] = r_out.scores[Place(l)]
                   => Place(k) < Place(l)
        /\ \A i \in Places, j \in (1..Len(r_in.candidates)) \ Places :
               r_out.scores[i] = r_out.scores[j] => i < j

\* C5 as amended: the result is in descending score order, holds every
\* candidate at most once and none that scores below a candidate left out;
\* where the build's argsort is stable, equal scores come in reverse input
\* order and the latest of them in input order are the ones kept.
C5_DescendingTopScores ==
    Ranked =>
        /\ Descending
        /\ \A k, l \in 1..Len(r_out.value) : k # l => Place(k) # Place(l)
        /\ \A i \in Places, j \in (1..Len(r_in.candidates)) \ Places :
               r_out.scores[i] >= r_out.scores[j]
        /\ build = "stable" =>
               /\ \A k, l \in 1..Len(r_out.value) :
                      k < l /\ r_out.scores[Place(k)] = r_out.scores[Place(l)]
                          => Place(k) > Place(l)
               /\ \A i \in Places, j \in (1..Len(r_in.candidates)) \ Places :
                      r_out.scores[i] = r_out.scores[j] => i > j

\* A result with two equal scores in it, a third candidate of that score cut
\* off, and a lower score below.
C5_Witness ==
    /\ Ranked /\ Len(r_out.value) = 2 /\ Len(r_in.candidates) = 3
    /\ r_out.scores[1] = r_out.scores[2] /\ r_out.scores[2] = r_out.scores[3]
    /\ r_out.scores[1] > 0

Min(a, b) == IF a < b THEN a ELSE b

\* C6: with query terms and candidates, the result has min(top_k,
\* len(candidates)) elements, for top_k = 0 and above.
C6_LengthIsMin ==
    Ranked /\ r_in.top_k >= 0 =>
        Len(r_out.value) = Min(r_in.top_k, Len(r_in.candidates))

\* The last call had query terms and candidates that yield no feature.
Degenerate ==
    /\ r_called /\ r_in.query_terms # <<>> /\ r_in.candidates # <<>>
    /\ EmptyVocabulary(<<Join(r_in.query_terms)>>
                           \o [i \in 1..Len(r_in.candidates) |-> r_in.candidates[i].term])

\* C7: with an empty vocabulary compute_similarities does not raise; it
\* returns the candidates in input order, each with score 0.
C7_DegenerateGivesZeros ==
    Degenerate /\ r_in.top_k >= Len(r_in.candidates) =>
        /\ ~r_out.raised
        /\ r_out.value =
               [i \in 1..Len(r_in.candidates) |->
                   [term |-> r_in.candidates[i].term, id |-> r_in.candidates[i].id,
                    url |-> r_in.candidates[i].url, similarity_score |-> 0]]

\* C9: a call with the arguments of an earlier call returns what that call
\* returned (or raises as it raised), whatever calls came in between and
\* whether or not the engine was created anew.
C9_SameInputSameOutput ==
    r_called /\ ref_set /\ r_in = ref_in =>
        r_out.raised = ref_out.raised /\ r_out.value = ref_out.value

\* The remembered call is repeated after a call with other arguments, or on
\* an engine created anew, and returns a positive score.
C9_Witness ==
    /\ ref_set /\ ref_gap /\ r_in = ref_in
    /\ vectorizer.fitted /\ r_out.value # <<>>
    /\ r_out.value[1].similarity_score > 0

(***************************************************************************)
(* Claims about recommend.                                                 *)
(***************************************************************************)
\* C10: a recommend call with terms calls search_terms once per term, in
\* order; all searches are over before compute_similarities is called, at
\* most once, with the concatenation of what they returned; an empty pool
\* ends the call with 404 and without a compute_similarities call.
C10_SearchEachThenRankOnce ==
    rec_pc = "done" /\ rec_terms # <<>> =>
        /\ search_log = rec_terms
        /\ Len(found) = Len(rec_terms)
        /\ rank_calls <= 1
        /\ rank_calls = 1 => rank_args = Flatten(found)
        /\ Flatten(found) = <<>> => rec_status = 404 /\ rank_calls = 0

\* C11: a compute_similarities call whose query_terms or candidates is empty
\* returns the empty sequence, raises nothing and leaves the vectorizer as
\* it was, fitted or not, for every top_k.
C11_EmptyInputReturnsEmpty ==
    [][\A q \in EngineQueries \cup {<<>>}, c \in EngineCandidates \cup {<<>>},
          k \in TopKs :
           ((q = <<>> \/ c = <<>>) /\ ComputeSimilarities(q, c, k, FALSE))
               => /\ ~r_out'.raised
                  /\ r_out'.value = <<>>
                  /\ vectorizer' = vectorizer]_vars

\* An empty call came back on an engine whose vectorizer an earlier call
\* had fitted.
C11_Witness ==
    /\ r_called
    /\ r_in.query_terms = <<>> \/ r_in.candidates = <<>>
    /\ r_in.top_k = -1
    /\ vectorizer # Unfitted
    /\ r_out = NoOutput

\* C12: every search_terms call that has ended issued exactly one outbound
\* GET, for every query, every max_pages and every outcome of the request.
C12_OneGetPerCall ==
    (calls[1] > 0 /\ pc[1] = "idle") => sent[1] = 1

\* C13: in a sequence of non-overlapping search_terms calls on one instance,
\* the outbound GETs of two successive calls are issued at least
\* min_request_interval apart.
C13_GetToGet ==
    (Len(gets) = 2 /\ Len(stamps) = 2 /\ stamps[1] <= gets[1] /\ stamps[2] <= gets[2])
        => gets[2] - gets[1] >= Interval

(***************************************************************************)
(* Claims about the API's rate limiter.                                    *)
(***************************************************************************)
\* Of the calls that returned True for one client, those within any span
\* shorter than the time window are at most rate_limit.
C14_WithinWindow ==
    \A c \in Clients :
        \A i, j \in 1..Len(allowed[c]) :
            (i <= j /\ allowed[c][j] - allowed[c][i] < WindowTicks(time_window))
                => j - i + 1 <= rate_limit

\* An is_allowed call that returns False records no timestamp, and no call
\* changes the entries of the other clients.
C14_Step ==
    lim_calls' # lim_calls =>
        LET c == lim_result'.client
        IN  /\ \A d \in Clients \ {c} : requests'[d] = requests[d]
            /\ ~lim_result'.value =>
                   /\ Len(requests'[c].times) <= Len(requests[c].times)
                   /\ allowed' = allowed

\* C14: for every client and any sequence of is_allowed calls at
\* non-decreasing times, at most rate_limit calls returned True within any
\* span shorter than time_window; a call that returns False records no
\* timestamp; calls of one client leave the history of the others alone.
C14_WindowedLimit == []C14_WithinWindow /\ [][C14_Step]_vars

\* A client was allowed more calls than rate_limit over more than a window
\* and is then refused, while another client has a history of its own.
C14_Witness ==
    /\ lim_result.client = 1 /\ ~lim_result.value
    /\ Len(allowed[1]) > rate_limit
    /\ Len(requests[1].times) = rate_limit
    /\ requests[2].times # <<>>

(***************************************************************************)
(* Claims about the request layer.                                         *)
(***************************************************************************)
\* C15: validate_terms accepts every terms field that is a single string
\* and returns a sequence: the list the string is the JSON text of, and for
\* every other string, valid JSON or not, the one-element list holding the
\* string itself.
C15_EveryStringAccepted ==
    (val_done /\ val_in.kind = "str") =>
        /\ ~val_out.raised
        /\ val_out.value.kind = "list"
        /\ LET parsed == JsonLoads(val_in.text)
           IN  (parsed.raised \/ parsed.value.kind # "list")
                   => val_out.value = ListValue(<<val_in>>)

=============================================================================
